---- MODULE Spec2Model ----
(***************************************************************************)
(* Model of the trips analytics API.  src/server.js holds two versions of  *)
(* the server: version "A" (lines 1-124: connection middleware + the trips *)
(* router factory of routes/trips.js, src/unnamed/part_000) and version    *)
(* "B" (lines 125-537: liveness probe, inline endpoint handlers).          *)
(***************************************************************************)
EXTENDS Integers, Sequences, FiniteSets, TLC

\* ------------------------------------------------------------------------
\* Bounds
\* ------------------------------------------------------------------------
MaxReq == 2
MaxTrips == 3

\* ------------------------------------------------------------------------
\* JavaScript / BSON values
\* ------------------------------------------------------------------------
Null == [t |-> "null"]
Undefined == [t |-> "undefined"]
NaN == [t |-> "NaN"]
Num(n) == [t |-> "num", v |-> n]
Str(s) == [t |-> "string", s |-> s]
Date(f, h) == [t |-> "date", fecha |-> f, hora |-> h]

IsNum(x) == x.t = "num"

\* JavaScript ===  (NaN is not equal to itself)
StrictEq(a, b) == a = b /\ a # NaN

\* JavaScript truthiness of a query-string value (undefined or a string)
Truthy(x) == x.t = "string" /\ x.s # <<>>

\* JavaScript isNaN(x): ToNumber(null) is 0, so isNaN(null) is false
IsNaN(x) == x = NaN

Digits == <<"0", "1", "2", "3", "4", "5", "6", "7", "8", "9">>

IsDigit(c) == \E i \in 1..10 : Digits[i] = c

DigitVal(c) == (CHOOSE i \in 1..10 : Digits[i] = c) - 1

RECURSIVE TrimLeft(_)
TrimLeft(s) == IF s # <<>> /\ Head(s) = " " THEN TrimLeft(Tail(s)) ELSE s

RECURSIVE DigitPrefix(_)
DigitPrefix(s) ==
  IF s # <<>> /\ IsDigit(Head(s)) THEN <<Head(s)>> \o DigitPrefix(Tail(s)) ELSE <<>>

RECURSIVE DigitsValue(_, _)
DigitsValue(ds, acc) ==
  IF ds = <<>> THEN acc ELSE DigitsValue(Tail(ds), 10 * acc + DigitVal(Head(ds)))

\* parseInt(s, 10) of a string given as a sequence of characters
ParseInt(s) ==
  LET t == TrimLeft(s)
      neg == t # <<>> /\ Head(t) = "-"
      u == IF t # <<>> /\ Head(t) \in {"+", "-"} THEN Tail(t) ELSE t
      ds == DigitPrefix(u)
  IN IF ds = <<>> THEN NaN
     ELSE Num(IF neg THEN 0 - DigitsValue(ds, 0) ELSE DigitsValue(ds, 0))

\* Math.max(1, x)
MathMax1(x) == IF x = NaN THEN NaN ELSE IF x.v < 1 THEN Num(1) ELSE x

\* ------------------------------------------------------------------------
\* Aggregation operators of the database engine
\* ------------------------------------------------------------------------
\* $hour / $dayOfWeek / $dateTrunc of "start time"; null for a null date
HourOf(d) == IF d.t = "date" THEN Num(d.hora) ELSE Null

\* fecha is a day number counted from 1970-01-01 (a Thursday); 1 = Sunday
DayOfWeekOf(d) == IF d.t = "date" THEN Num(((d.fecha + 4) % 7) + 1) ELSE Null

DateTruncDay(d) == IF d.t = "date" THEN Num(d.fecha) ELSE Null

RECURSIVE SumDur(_, _)
SumDur(trips, I) ==
  IF I = {} THEN 0
  ELSE LET i == CHOOSE j \in I : TRUE
       IN trips[i].tripduration.v + SumDur(trips, I \ {i})

RECURSIVE Gcd(_, _)
Gcd(a, b) == IF b = 0 THEN a ELSE Gcd(b, a % b)

\* $avg over the documents I: non-numeric values are ignored, null if none
Avg(trips, I) ==
  LET J == {i \in I : IsNum(trips[i].tripduration)}
      s == SumDur(trips, J)
      n == Cardinality(J)
      g == Gcd(s, n)
  IN IF J = {} THEN Null ELSE [t |-> "avg", num |-> s \div g, den |-> n \div g]

\* sort order of BSON values: null before numbers
BsonLeq(a, b) == a = Null \/ (IsNum(a) /\ IsNum(b) /\ a.v <= b.v)

Perms(S) ==
  {s \in [1..Cardinality(S) -> S] : \A i, j \in 1..Cardinality(S) : i # j => s[i] # s[j]}

\* every order in which a $sort stage may deliver the rows S
\* (the order of rows with equal keys is not fixed)
Sorted(S, Before(_, _)) ==
  {s \in Perms(S) : \A i, j \in 1..Cardinality(S) : i < j => Before(s[i], s[j])}

Take(s, n) == SubSeq(s, 1, IF n < Len(s) THEN n ELSE Len(s))

Docs(trips) == 1..Len(trips)

\* 1.1: $group by usertype, $project
Group11(trips) ==
  {[usertype |-> k,
    total_Viajes |-> Cardinality({i \in Docs(trips) : trips[i].usertype = k}),
    duracion_Promedio |-> Avg(trips, {i \in Docs(trips) : trips[i].usertype = k})]
   : k \in {trips[i].usertype : i \in Docs(trips)}}

Pipeline11(trips) == Sorted(Group11(trips), LAMBDA a, b : TRUE)

\* 1.2: $addFields hora, $group by hora, $project, $sort hora ascending
Group12(trips) ==
  {[hora |-> k,
    total_Viajes |-> Cardinality({i \in Docs(trips) : HourOf(trips[i].start) = k}),
    duracion_Promedio |-> Avg(trips, {i \in Docs(trips) : HourOf(trips[i].start) = k})]
   : k \in {HourOf(trips[i].start) : i \in Docs(trips)}}

Pipeline12(trips) == Sorted(Group12(trips), LAMBDA a, b : BsonLeq(a.hora, b.hora))

\* 1.3: $addFields fecha, $group by fecha, $project, $sort fecha ascending
Group13(trips) ==
  {[fecha |-> k,
    total_Viajes |-> Cardinality({i \in Docs(trips) : DateTruncDay(trips[i].start) = k})]
   : k \in {DateTruncDay(trips[i].start) : i \in Docs(trips)}}

Pipeline13(trips) == Sorted(Group13(trips), LAMBDA a, b : BsonLeq(a.fecha, b.fecha))

\* 1.4: $group by station, $project, $sort total_Salidas descending, $limit
Group14(trips) ==
  {[estacion_id |-> k.id, estacion_nombre |-> k.nombre,
    total_Salidas |-> Cardinality({i \in Docs(trips) : trips[i].station = k}),
    duracion_Promedio |-> Avg(trips, {i \in Docs(trips) : trips[i].station = k})]
   : k \in {trips[i].station : i \in Docs(trips)}}

Sort14(trips) == Sorted(Group14(trips), LAMBDA a, b : a.total_Salidas >= b.total_Salidas)

Pipeline14(trips, limit) == {Take(s, limit) : s \in Sort14(trips)}

\* 1.5: $addFields hora, dia_Semana, $group by the pair, $project,
\* $sort total_Viajes descending
Key15(trip) == [hora |-> HourOf(trip.start), dia_Semana |-> DayOfWeekOf(trip.start)]

Group15(trips) ==
  {[hora |-> k.hora, dia_Semana |-> k.dia_Semana,
    total_Viajes |-> Cardinality({i \in Docs(trips) : Key15(trips[i]) = k})]
   : k \in {Key15(trips[i]) : i \in Docs(trips)}}

Pipeline15(trips) == Sorted(Group15(trips), LAMBDA a, b : a.total_Viajes >= b.total_Viajes)

\* ------------------------------------------------------------------------
\* Parameter binding and post-filtering of the handlers
\* ------------------------------------------------------------------------
\* req.query.X !== undefined ? parseInt(req.query.X, 10) : null
IntParam(x) == IF x # Undefined THEN ParseInt(x.s) ELSE Null

\* FilterOn without the isNaN test
FilterOnNoNaNTest(p) == p # Null

\* if (p !== null && !isNaN(p))
FilterOn(p) == p # Null /\ ~IsNaN(p)

\* Limit14 without the clamp Math.max(1, ...)
Limit14NoClamp(q) == IF Truthy(q.limit) THEN ParseInt(q.limit.s) ELSE Num(10)

\* req.query.limit ? Math.max(1, parseInt(req.query.limit, 10)) : 10
Limit14(q) == IF Truthy(q.limit) THEN MathMax1(ParseInt(q.limit.s)) ELSE Num(10)

\* Filter12 with the comparison inverted
Filter12Inverted(rows, q) ==
  LET hourParam == IntParam(q.hour)
  IN IF hourParam # Null /\ ~IsNaN(hourParam)
     THEN SelectSeq(rows, LAMBDA r : ~StrictEq(r.hora, hourParam))
     ELSE rows

\* rows.filter(r => r.hora === hourParam)
Filter12(rows, q) ==
  LET hourParam == IntParam(q.hour)
  IN IF FilterOn(hourParam)
     THEN SelectSeq(rows, LAMBDA r : StrictEq(r.hora, hourParam))
     ELSE rows

\* Filter15 with the day filter applied to the unfiltered rows
Filter15DayOnly(rows, q) ==
  LET hourQ == IntParam(q.hour)
      dayQ == IntParam(q.day)
      rows1 == IF hourQ # Null /\ ~IsNaN(hourQ)
               THEN SelectSeq(rows, LAMBDA r : StrictEq(r.hora, hourQ)) ELSE rows
  IN IF dayQ # Null /\ ~IsNaN(dayQ)
     THEN SelectSeq(rows, LAMBDA r : StrictEq(r.dia_Semana, dayQ)) ELSE rows1

Filter15(rows, q) ==
  LET hourQ == IntParam(q.hour)
      dayQ == IntParam(q.day)
      rows1 == IF FilterOn(hourQ)
               THEN SelectSeq(rows, LAMBDA r : StrictEq(r.hora, hourQ)) ELSE rows
  IN IF FilterOn(dayQ)
     THEN SelectSeq(rows1, LAMBDA r : StrictEq(r.dia_Semana, dayQ)) ELSE rows1

\* ------------------------------------------------------------------------
\* Requests, responses, handles
\* ------------------------------------------------------------------------
Requests == 1..MaxReq

ClientH(c) == [t |-> "client", id |-> c]
DbH(c) == [t |-> "db", client |-> c]

Endpoints == {"1.1", "1.2", "1.3", "1.4", "1.5"}

TripsPath(e) ==
  CASE e = "1.1" -> "/api/trips/1.1" [] e = "1.2" -> "/api/trips/1.2"
    [] e = "1.3" -> "/api/trips/1.3" [] e = "1.4" -> "/api/trips/1.4"
    [] e = "1.5" -> "/api/trips/1.5"

TripsPaths == {TripsPath(e) : e \in Endpoints}

EndpointOf(path) == CHOOSE e \in Endpoints : TripsPath(e) = path

\* paths under the /api/trips mount point
UnderTrips == TripsPaths \cup {"/api/trips/9"}

RegisteredPaths == {"/", "/api/health"} \cup TripsPaths

Paths == RegisteredPaths \cup {"/api/trips/9", "/nope"}

ErrorText(e) ==
  CASE e = "1.1" -> "Error en la consulta 1.1" [] e = "1.2" -> "Error en la consulta 1.2"
    [] e = "1.3" -> "Error en la consulta 1.3" [] e = "1.4" -> "Error en la consulta 1.4"
    [] e = "1.5" -> "Error en la consulta 1.5"

UriMsg == "MONGODB_URI no esta configurado"
ConnectMsg == "connect failed"
PingMsg == "ping failed"
ListMsg == "listCollections failed"
NullDbMsg == "Cannot read properties of null"
AggMsg == "aggregate failed"

Query(h, d, l) == [hour |-> h, day |-> d, limit |-> l]
NoQuery == Query(Undefined, Undefined, Undefined)

Json(status, body) == [status |-> status, type |-> "object", body |-> body]
RowsJson(rows) == [status |-> 200, type |-> "array", body |-> [rows |-> rows]]
SendFile == [status |-> 200, type |-> "file", body |-> [file |-> "dashboard.html"]]

IdleReq ==
  [pc |-> "idle", path |-> "/", query |-> NoQuery, probe |-> "none", probed |-> Null,
   cacheHit |-> FALSE, db |-> Undefined, coll |-> Undefined, responses |-> <<>>]

Respond(rec, resp) == [rec EXCEPT !.pc = "done", !.responses = Append(@, resp)]

\* ------------------------------------------------------------------------
\* State
\* ------------------------------------------------------------------------
VARIABLES
  variant,       \* "A": server.js 1-124 with routes/trips.js; "B": server.js 125-537
  MONGODB_URI,   \* process.env.MONGODB_URI
  DB_NAME,       \* process.env.DB_NAME
  NODE_ENV,      \* process.env.NODE_ENV || 'development'
  running,       \* the process has not exited
  dbUp,          \* the database server is reachable
  trips,         \* the documents of the trips collection
  cachedClient,  \* let cachedClient
  cachedDb,      \* let cachedDb
  clientState,   \* the MongoClient that request c created: none/created/open/closed
  router,        \* routes/trips.js module-level router: the db handle of each factory call
  req            \* the requests being served

vars == <<variant, MONGODB_URI, DB_NAME, NODE_ENV, running, dbUp, trips,
          cachedClient, cachedDb, clientState, router, req>>

config == <<variant, MONGODB_URI, DB_NAME, NODE_ENV, trips>>

EnvValues == {Undefined, Str(<<"x">>)}

IsSet(x) == Truthy(x)

\* if (!MONGODB_URI || !DB_NAME) { ... if (NODE_ENV === 'production') process.exit(1) }
\* version A only logs the error
StartupOk(v, uri, name, env) ==
  v = "B" /\ env = "production" => IsSet(uri) /\ IsSet(name)

\* the three-trip fixture plus one trip without a start time
Fixture ==
  << [usertype |-> "Subscriber", tripduration |-> Num(100), start |-> Date(3, 1),
      station |-> [id |-> 1, nombre |-> "s1"]],
     [usertype |-> "Subscriber", tripduration |-> Num(300), start |-> Date(3, 12),
      station |-> [id |-> 1, nombre |-> "s1"]],
     [usertype |-> "Customer", tripduration |-> Num(200), start |-> Date(4, 1),
      station |-> [id |-> 2, nombre |-> "s2"]] >>

InitServer ==
  /\ running = TRUE
  /\ dbUp \in BOOLEAN
  /\ cachedClient = Null
  /\ cachedDb = Null
  /\ clientState = [c \in Requests |-> "none"]
  /\ router = <<>>
  /\ req = [r \in Requests |-> IdleReq]

Init ==
  /\ variant \in {"A", "B"}
  /\ MONGODB_URI \in EnvValues
  /\ DB_NAME \in EnvValues
  /\ NODE_ENV \in {"development", "production"}
  /\ StartupOk(variant, MONGODB_URI, DB_NAME, NODE_ENV)
  /\ trips = Fixture
  /\ InitServer

Cached == cachedClient # Null /\ cachedDb # Null

\* ------------------------------------------------------------------------
\* Version B: inline handlers (server.js 238-478)
\* ------------------------------------------------------------------------
HealthError(msg) ==
  Json(503, [status |-> "error", environment |-> NODE_ENV, database |-> "disconnected",
             message |-> msg, timestamp |-> "now"])

HealthOk ==
  Json(200, [status |-> "ok", environment |-> NODE_ENV, timestamp |-> "now",
             database |-> "connected", ping |-> "ok", uptime |-> "uptime"])

\* the catch block of the handler of rec.path
CatchB(rec, msg) ==
  IF rec.path = "/api/health" THEN Respond(rec, HealthError(msg))
  ELSE Respond(rec, Json(500, [error |-> ErrorText(EndpointOf(rec.path)), message |-> msg]))

\* the handler continues with the { db } that connectToDatabase returned
HandlerB(rec, db) ==
  IF db = Null THEN CatchB([rec EXCEPT !.db = db], NullDbMsg)
  ELSE IF rec.path = "/api/health" THEN [rec EXCEPT !.db = db, !.pc = "hping"]
  ELSE [rec EXCEPT !.db = db, !.coll = db, !.pc = "agg"]

NotFoundB(path) ==
  Json(404, [error |-> "Ruta no encontrada", path |-> path,
             availableRoutes |-> <<"GET /", "GET /api/health", "GET /api/trips/1.1",
                                   "GET /api/trips/1.2", "GET /api/trips/1.3",
                                   "GET /api/trips/1.4", "GET /api/trips/1.5">>])

\* connectToDatabase up to its first await, cache empty (server.js 183-201)
NewConnection(r, rec) ==
  IF ~IsSet(MONGODB_URI)
  THEN /\ req' = [req EXCEPT ![r] = CatchB(rec, UriMsg)]
       /\ UNCHANGED clientState
  ELSE /\ req' = [req EXCEPT ![r] = [rec EXCEPT !.pc = "connect"]]
       /\ clientState' = [clientState EXCEPT ![r] = "created"]

\* a request arrives; requests are numbered in arrival order
Arrives(r) ==
  /\ running
  /\ req[r].pc = "idle"
  /\ \A s \in Requests : s < r => req[s].pc # "idle"

ReceiveB(r, path, query) ==
  /\ variant = "B"
  /\ Arrives(r)
  /\ LET rec == [req[r] EXCEPT !.path = path, !.query = query]
     IN IF path = "/"
        THEN /\ req' = [req EXCEPT ![r] = Respond(rec, SendFile)]
             /\ UNCHANGED clientState
        ELSE IF path \notin RegisteredPaths
        THEN /\ req' = [req EXCEPT ![r] = Respond(rec, NotFoundB(path))]
             /\ UNCHANGED clientState
        ELSE IF Cached
        THEN /\ req' = [req EXCEPT ![r] = [rec EXCEPT !.pc = "ping", !.probe = "pending",
                                                      !.probed = cachedClient]]
             /\ UNCHANGED clientState
        ELSE NewConnection(r, rec)
  /\ UNCHANGED <<config, running, dbUp, cachedClient, cachedDb, router>>

\* await cachedClient.db(DB_NAME).command({ ping: 1 }) settles (server.js 171-181)
PingDoneB(r) ==
  /\ variant = "B" /\ running
  /\ req[r].pc = "ping"
  /\ IF dbUp /\ clientState[req[r].probed.id] = "open"
     THEN /\ req' = [req EXCEPT ![r] =
                       HandlerB([req[r] EXCEPT !.probe = "ok", !.cacheHit = TRUE], cachedDb)]
          /\ UNCHANGED <<cachedClient, cachedDb, clientState>>
     ELSE /\ cachedClient' = Null
          /\ cachedDb' = Null
          /\ NewConnection(r, [req[r] EXCEPT !.probe = "failed"])
  /\ UNCHANGED <<config, running, dbUp, router>>

\* await client.connect() settles (server.js 201)
ConnectDoneB(r) ==
  /\ variant = "B" /\ running
  /\ req[r].pc = "connect"
  /\ IF dbUp
     THEN /\ clientState' = [clientState EXCEPT ![r] = "open"]
          /\ req' = [req EXCEPT ![r].pc = "ping2"]
     ELSE /\ req' = [req EXCEPT ![r] = CatchB(req[r], ConnectMsg)]
          /\ UNCHANGED clientState
  /\ UNCHANGED <<config, running, dbUp, cachedClient, cachedDb, router>>

\* await db.command({ ping: 1 }) on the new client settles (server.js 204-205)
Ping2DoneB(r) ==
  /\ variant = "B" /\ running
  /\ req[r].pc = "ping2"
  /\ req' = [req EXCEPT ![r] = IF dbUp THEN [req[r] EXCEPT !.pc = "list"]
                                ELSE CatchB(req[r], PingMsg)]
  /\ UNCHANGED <<config, running, dbUp, cachedClient, cachedDb, clientState, router>>

\* await db.listCollections(...).toArray() settles; the cache is written (server.js 209-223)
ListDoneB(r) ==
  /\ variant = "B" /\ running
  /\ req[r].pc = "list"
  /\ IF dbUp
     THEN /\ cachedClient' = ClientH(r)
          /\ cachedDb' = DbH(r)
          /\ req' = [req EXCEPT ![r] = HandlerB(req[r], DbH(r))]
     ELSE /\ req' = [req EXCEPT ![r] = CatchB(req[r], ListMsg)]
          /\ UNCHANGED <<cachedClient, cachedDb>>
  /\ UNCHANGED <<config, running, dbUp, clientState, router>>

\* await db.command({ ping: 1 }) of the health handler settles (server.js 241-260)
HealthPingDoneB(r) ==
  /\ variant = "B" /\ running
  /\ req[r].pc = "hping"
  /\ req' = [req EXCEPT ![r] = IF dbUp THEN Respond(req[r], HealthOk)
                                ELSE CatchB(req[r], PingMsg)]
  /\ UNCHANGED <<config, running, dbUp, cachedClient, cachedDb, clientState, router>>

\* the $limit stage accepts only a positive number
PipelineValid(e, q) == e = "1.4" => IsNum(Limit14(q)) /\ Limit14(q).v >= 1

\* the arrays the handler of endpoint e may send
Result(e, docs, q) ==
  CASE e = "1.1" -> Pipeline11(docs)
    [] e = "1.2" -> {Filter12(s, q) : s \in Pipeline12(docs)}
    [] e = "1.3" -> Pipeline13(docs)
    [] e = "1.4" -> Pipeline14(docs, Limit14(q).v)
    [] e = "1.5" -> {Filter15(s, q) : s \in Pipeline15(docs)}

QueryOk(rec) ==
  /\ dbUp
  /\ clientState[rec.coll.client] = "open"
  /\ PipelineValid(EndpointOf(rec.path), rec.query)

\* await collection.aggregate(pipeline).toArray() settles (server.js 264-478)
AggDoneB(r) ==
  /\ variant = "B" /\ running
  /\ req[r].pc = "agg"
  /\ IF QueryOk(req[r])
     THEN \E rows \in Result(EndpointOf(req[r].path), trips, req[r].query) :
            req' = [req EXCEPT ![r] = Respond(req[r], RowsJson(rows))]
     ELSE req' = [req EXCEPT ![r] = CatchB(req[r], AggMsg)]
  /\ UNCHANGED <<config, running, dbUp, cachedClient, cachedDb, clientState, router>>

\* process.on('SIGTERM' / 'SIGINT') (server.js 509-525)
Shutdown ==
  /\ variant = "B" /\ running
  /\ clientState' = IF cachedClient # Null
                    THEN [clientState EXCEPT ![cachedClient.id] = "closed"]
                    ELSE clientState
  /\ running' = FALSE
  /\ UNCHANGED <<config, dbUp, cachedClient, cachedDb, router, req>>

\* ------------------------------------------------------------------------
\* Version A: connection middleware and the trips router (server.js 35-105,
\* routes/trips.js)
\* ------------------------------------------------------------------------
MiddlewareError(msg) ==
  Json(500, [error |-> "Error de conexion a la base de datos", message |-> msg])

NotFoundA == Json(404, [error |-> "Ruta no encontrada"])

HealthA(cdb) ==
  Json(200, [status |-> "ok", timestamp |-> "now",
             database |-> IF cdb # Null THEN "connected" ELSE "disconnected"])

\* tripsRouter(req.db): every call registers five more routes on the one
\* module-level router, each bound to the collection of that call's db
RouterFactory(stack, db) == Append(stack, db)

\* the route of the router that answers: the first one registered for the path
Dispatch(stack) == stack[1]

\* next() after the middleware set req.db = db; cdb is cachedDb at that moment
RouteA(r, rec, db, cdb) ==
  LET rec1 == [rec EXCEPT !.db = db]
  IN IF rec.path = "/"
     THEN /\ req' = [req EXCEPT ![r] = Respond(rec1, SendFile)]
          /\ UNCHANGED router
     ELSE IF rec.path = "/api/health"
     THEN /\ req' = [req EXCEPT ![r] = Respond(rec1, HealthA(cdb))]
          /\ UNCHANGED router
     ELSE IF rec.path \in UnderTrips
     THEN /\ router' = RouterFactory(router, db)
          /\ req' = [req EXCEPT ![r] =
                       IF rec.path \in TripsPaths
                       THEN [rec1 EXCEPT !.coll = Dispatch(router'), !.pc = "agg"]
                       ELSE Respond(rec1, NotFoundA)]
     ELSE /\ req' = [req EXCEPT ![r] = Respond(rec1, NotFoundA)]
          /\ UNCHANGED router

\* the middleware calls connectToDatabase (server.js 38-79)
ReceiveA(r, path, query) ==
  /\ variant = "A"
  /\ Arrives(r)
  /\ LET rec == [req[r] EXCEPT !.path = path, !.query = query]
     IN IF Cached
        THEN /\ RouteA(r, [rec EXCEPT !.cacheHit = TRUE], cachedDb, cachedDb)
             /\ UNCHANGED clientState
        ELSE IF ~IsSet(MONGODB_URI)
        THEN /\ req' = [req EXCEPT ![r] = Respond(rec, MiddlewareError(UriMsg))]
             /\ UNCHANGED <<clientState, router>>
        ELSE /\ req' = [req EXCEPT ![r] = [rec EXCEPT !.pc = "connect"]]
             /\ clientState' = [clientState EXCEPT ![r] = "created"]
             /\ UNCHANGED router
  /\ UNCHANGED <<config, running, dbUp, cachedClient, cachedDb>>

\* await client.connect() settles; the cache is written (server.js 56-63, 69-78)
ConnectDoneA(r) ==
  /\ variant = "A" /\ running
  /\ req[r].pc = "connect"
  /\ IF dbUp
     THEN /\ clientState' = [clientState EXCEPT ![r] = "open"]
          /\ cachedClient' = ClientH(r)
          /\ cachedDb' = DbH(r)
          /\ RouteA(r, req[r], DbH(r), DbH(r))
     ELSE /\ req' = [req EXCEPT ![r] = Respond(req[r], MiddlewareError(ConnectMsg))]
          /\ UNCHANGED <<clientState, cachedClient, cachedDb, router>>
  /\ UNCHANGED <<config, running, dbUp>>

\* await collection.aggregate(pipeline).toArray() settles (routes/trips.js 11-194)
AggDoneA(r) ==
  /\ variant = "A" /\ running
  /\ req[r].pc = "agg"
  /\ IF QueryOk(req[r])
     THEN \E rows \in Result(EndpointOf(req[r].path), trips, req[r].query) :
            req' = [req EXCEPT ![r] = Respond(req[r], RowsJson(rows))]
     ELSE req' = [req EXCEPT ![r] =
                    Respond(req[r], Json(500, [error |-> ErrorText(EndpointOf(req[r].path))]))]
  /\ UNCHANGED <<config, running, dbUp, cachedClient, cachedDb, clientState, router>>

\* ------------------------------------------------------------------------
\* Environment
\* ------------------------------------------------------------------------
DbGoesDown ==
  /\ running /\ dbUp
  /\ dbUp' = FALSE
  /\ UNCHANGED <<config, running, cachedClient, cachedDb, clientState, router, req>>

DbComesUp ==
  /\ running /\ ~dbUp
  /\ dbUp' = TRUE
  /\ UNCHANGED <<config, running, cachedClient, cachedDb, clientState, router, req>>

\* ------------------------------------------------------------------------
\* Inputs
\* ------------------------------------------------------------------------
S1 == Str(<<"1">>)

\* query strings of the requests of the server specification
QueriesOf(path) ==
  IF path = "/api/trips/1.2" THEN {NoQuery, Query(S1, Undefined, Undefined)}
  ELSE IF path = "/api/trips/1.4"
  THEN {NoQuery, Query(Undefined, Undefined, Str(<<"a">>)), Query(Undefined, Undefined, S1)}
  ELSE IF path = "/api/trips/1.5" THEN {NoQuery, Query(S1, S1, Undefined)}
  ELSE {NoQuery}

Next ==
  \/ \E r \in Requests, path \in Paths : \E query \in QueriesOf(path) :
       \/ ReceiveA(r, path, query)
       \/ ReceiveB(r, path, query)
  \/ \E r \in Requests :
       \/ ConnectDoneA(r)
       \/ AggDoneA(r)
       \/ PingDoneB(r)
       \/ ConnectDoneB(r)
       \/ Ping2DoneB(r)
       \/ ListDoneB(r)
       \/ HealthPingDoneB(r)
       \/ AggDoneB(r)
  \/ Shutdown
  \/ DbGoesDown
  \/ DbComesUp

Spec == Init /\ [][Next]_vars

\* ------------------------------------------------------------------------
\* The endpoints over every small collection and query string
\* ------------------------------------------------------------------------
St(i, n) == [id |-> i, nombre |-> n]

Trip(u, d, s, st) == [usertype |-> u, tripduration |-> d, start |-> s, station |-> st]

TripPool ==
  { Trip("Subscriber", Num(100), Date(3, 1), St(1, "s1")),
    Trip("Subscriber", Num(300), Date(3, 12), St(1, "s1")),
    Trip("Customer", Num(200), Date(4, 1), St(2, "s2")),
    Trip("Customer", Null, Date(4, 12), St(2, "s2")),
    Trip("Subscriber", Num(200), Null, St(3, "s3")) }

Collections == UNION {[1..n -> TripPool] : n \in 0..MaxTrips}

RawHours ==
  {Undefined} \cup {Str(s) : s \in {<<>>, <<"0">>, <<"1">>, <<"1", "2">>, <<"a">>,
                                     <<"1", "a">>, <<"-", "1">>}}

RawDays == {Undefined} \cup {Str(s) : s \in {<<"1">>, <<"2">>, <<"x">>}}

RawLimits ==
  {Undefined} \cup {Str(s) : s \in {<<>>, <<"0">>, <<"1">>, <<"2">>, <<"-", "1">>,
                                     <<"a">>, <<"2", "x">>, <<" ", "3">>}}

AllQueriesOf(path) ==
  IF path = "/api/trips/1.2" THEN {Query(h, Undefined, Undefined) : h \in RawHours}
  ELSE IF path = "/api/trips/1.4" THEN {Query(Undefined, Undefined, l) : l \in RawLimits}
  ELSE IF path = "/api/trips/1.5" THEN {Query(h, d, Undefined) : h \in RawHours, d \in RawDays}
  ELSE {NoQuery}

InitQuery ==
  /\ variant \in {"A", "B"}
  /\ MONGODB_URI = Str(<<"x">>)
  /\ DB_NAME = Str(<<"x">>)
  /\ NODE_ENV = "development"
  /\ trips \in Collections
  /\ InitServer
  /\ dbUp = TRUE

\* one request, served while the database stays reachable
NextQuery ==
  \/ \E path \in TripsPaths : \E query \in AllQueriesOf(path) :
       \/ ReceiveA(1, path, query)
       \/ ReceiveB(1, path, query)
  \/ ConnectDoneA(1)
  \/ AggDoneA(1)
  \/ ConnectDoneB(1)
  \/ Ping2DoneB(1)
  \/ ListDoneB(1)
  \/ AggDoneB(1)

SpecQuery == InitQuery /\ [][NextQuery]_vars

\* ------------------------------------------------------------------------
\* Properties of the connection manager and of the error paths
\* ------------------------------------------------------------------------
Live(c) == clientState[c] = "open"

Done(r) == req[r].pc = "done"

Response(r) == req[r].responses[1]

HasFields(resp, fields) == resp.type = "object" /\ fields \subseteq DOMAIN resp.body

\* the request has called connectToDatabase
CalledConnect(r) ==
  /\ req[r].pc # "idle"
  /\ variant = "B" => req[r].path \in RegisteredPaths \ {"/"}

\* C1: the process never holds more than one live (connected, not closed)
\* database client at the same time
AtMostOneLiveClient == Cardinality({c \in Requests : Live(c)}) <= 1

\* C2: a call that finds a cached connection returns the cached handle only
\* after its liveness probe succeeded; a failed probe clears the cache and
\* starts a fresh connection
ProbeBeforeCachedReturn ==
  \A r \in Requests :
    /\ req[r].cacheHit => req[r].probe = "ok"
    /\ req[r].probe = "failed" => ~req[r].cacheHit /\ clientState[r] # "none"

\* C3: a request to one of the endpoints 1.1-1.5 receives exactly one
\* response, and a failure is reported with status 500 and a body carrying
\* both error and message
TripsFailureIs500WithMessage ==
  \A r \in Requests :
    Done(r) /\ req[r].path \in TripsPaths =>
      /\ Len(req[r].responses) = 1
      /\ Response(r).status # 200 =>
           /\ Response(r).status = 500
           /\ HasFields(Response(r), {"error", "message"})

\* C4: with the URI unset or the database name unset, connection acquisition
\* fails with the configuration error, no client is created and the cache
\* stays as it was
ConfigErrorWhenUnset ==
  \A r \in Requests :
    CalledConnect(r) /\ (~IsSet(MONGODB_URI) \/ ~IsSet(DB_NAME)) =>
      /\ clientState[r] = "none"
      /\ cachedClient = Null /\ cachedDb = Null
      /\ Done(r)
      /\ HasFields(Response(r), {"message"})
      /\ Response(r).body.message = UriMsg

\* the database can be reached with the configured URI
Reachable == dbUp /\ IsSet(MONGODB_URI)

\* C5: the response to GET /api/health is a health body (status, database)
\* that reports ok/connected when the database is reachable at that moment
\* and an error/disconnected status when it is not
HealthReportsReachability ==
  [][\A r \in Requests :
       ~Done(r) /\ req'[r].pc = "done" /\ req'[r].path = "/api/health" =>
         LET resp == req'[r].responses[1]
         IN /\ HasFields(resp, {"status", "database"})
            /\ Reachable' => resp.body.status = "ok" /\ resp.body.database = "connected"
            /\ ~Reachable' => resp.body.status # "ok" /\ resp.body.database = "disconnected"]_vars

\* C6: a request whose path matches no registered route receives exactly one
\* response, with status 404 and an error body, whatever the database state
UnknownRouteIs404 ==
  \A r \in Requests :
    Done(r) /\ req[r].path \notin RegisteredPaths =>
      /\ Len(req[r].responses) = 1
      /\ Response(r).status = 404
      /\ HasFields(Response(r), {"error"})

\* ------------------------------------------------------------------------
\* Properties of the endpoints
\* ------------------------------------------------------------------------
Answered(r, path) ==
  Done(r) /\ req[r].path = path /\ Response(r).status = 200

RowsOf(r) == Response(r).body.rows

\* avg is the mean tripduration of the documents I (null when none is numeric)
MeanIs(avg, I) ==
  LET J == {i \in I : IsNum(trips[i].tripduration)}
  IN IF J = {} THEN avg = Null
     ELSE avg.t = "avg" /\ avg.num * Cardinality(J) = avg.den * SumDur(trips, J)

Descending(rows, Count(_)) ==
  \A i, j \in 1..Len(rows) : i < j => Count(rows[i]) >= Count(rows[j])

Stations == {trips[i].station : i \in Docs(trips)}

DocsOfStation(k) == {i \in Docs(trips) : trips[i].station = k}

StationOf(row) == [id |-> row.estacion_id, nombre |-> row.estacion_nombre]

\* rows are the first L rows of the per-station aggregation sorted descending
\* by departure count
IsTopStations(rows, L) ==
  /\ Len(rows) = IF L < Cardinality(Stations) THEN L ELSE Cardinality(Stations)
  /\ \A i \in 1..Len(rows) :
       /\ StationOf(rows[i]) \in Stations
       /\ rows[i].total_Salidas = Cardinality(DocsOfStation(StationOf(rows[i])))
       /\ MeanIs(rows[i].duracion_Promedio, DocsOfStation(StationOf(rows[i])))
  /\ \A i, j \in 1..Len(rows) : i # j => StationOf(rows[i]) # StationOf(rows[j])
  /\ Descending(rows, LAMBDA row : row.total_Salidas)
  /\ \A k \in Stations \ {StationOf(rows[i]) : i \in 1..Len(rows)} :
       \A i \in 1..Len(rows) : rows[i].total_Salidas >= Cardinality(DocsOfStation(k))

\* the effective limit as the contract gives it
ExpectedLimit(x) ==
  IF x = Undefined \/ x.s = <<>> THEN Num(10)
  ELSE LET n == ParseInt(x.s)
       IN IF n = NaN THEN NaN ELSE IF n.v <= 0 THEN Num(1) ELSE n

\* C7 (as stated): for every supplied limit the $limit stage of endpoint 1.4
\* receives an integer >= 1
LimitStageGetsInteger ==
  \A r \in Requests :
    req[r].path = "/api/trips/1.4" /\ req[r].pc = "agg" =>
      IsNum(Limit14(req[r].query)) /\ Limit14(req[r].query).v >= 1

\* C7 (amended): endpoint 1.4 returns the first L rows of the per-station
\* aggregation sorted descending by departure count, L = 10 for an absent or
\* empty limit, 1 when the limit parses to a value <= 0, the parsed value
\* otherwise; limit=0 gives what limit=1 gives; a limit that does not parse
\* to a number puts NaN in the $limit stage and the request is answered 500
TopStationsWithinLimit ==
  \A r \in Requests :
    Done(r) /\ req[r].path = "/api/trips/1.4" =>
      LET L == ExpectedLimit(req[r].query.limit)
      IN /\ Len(req[r].responses) = 1
         /\ IF L = NaN THEN Response(r).status = 500
            ELSE /\ L.v >= 1
                 /\ Response(r).status = 200
                 /\ IsTopStations(RowsOf(r), L.v)
         /\ req[r].query.limit = Str(<<"0">>) =>
              Result("1.4", trips, req[r].query)
                = Result("1.4", trips, Query(Undefined, Undefined, Str(<<"1">>)))

\* limit=0 answered with one row although there are several stations
TopStationsWitness ==
  \E r \in Requests :
    /\ Answered(r, "/api/trips/1.4")
    /\ req[r].query.limit = Str(<<"0">>)
    /\ Len(RowsOf(r)) = 1
    /\ Cardinality(Stations) >= 2

Hours == {HourOf(trips[i].start) : i \in Docs(trips)}

DocsOfHour(h) == {i \in Docs(trips) : HourOf(trips[i].start) = h}

\* row is the row of the per-hour aggregation of its hora
IsHourRow(row) ==
  /\ row.hora \in Hours
  /\ row.total_Viajes = Cardinality(DocsOfHour(row.hora))
  /\ MeanIs(row.duracion_Promedio, DocsOfHour(row.hora))

\* rows are the whole per-hour aggregation, ascending by hora
IsFullByHour(rows) ==
  /\ \A i \in 1..Len(rows) : IsHourRow(rows[i])
  /\ {rows[i].hora : i \in 1..Len(rows)} = Hours
  /\ \A i, j \in 1..Len(rows) :
       i < j => BsonLeq(rows[i].hora, rows[j].hora) /\ rows[i].hora # rows[j].hora

AllDigits(s) == s # <<>> /\ \A i \in 1..Len(s) : IsDigit(s[i])

NoDigit(s) == \A i \in 1..Len(s) : ~IsDigit(s[i])

\* the query value is an integer in 0..23 written in decimal
ValidHour(x) == x.t = "string" /\ AllDigits(x.s) /\ DigitsValue(x.s, 0) \in 0..23

Pairs == {Key15(trips[i]) : i \in Docs(trips)}

KeyOf(row) == [hora |-> row.hora, dia_Semana |-> row.dia_Semana]

HasInt(x) == x # Undefined /\ ParseInt(x.s) # NaN

\* the hour x weekday groups that the query selects
Selected(q) ==
  {k \in Pairs :
     /\ HasInt(q.hour) => k.hora = ParseInt(q.hour.s)
     /\ HasInt(q.day) => k.dia_Semana = ParseInt(q.day.s)}

\* C9: endpoint 1.5 returns exactly the rows of the hour x weekday
\* aggregation whose hora equals hour (when given) and whose dia_Semana
\* equals day (when given), each group once with its count, in descending
\* order of count
HourDayFiltersCombine ==
  \A r \in Requests :
    Answered(r, "/api/trips/1.5") =>
      LET rows == RowsOf(r)
      IN /\ {KeyOf(rows[i]) : i \in 1..Len(rows)} = Selected(req[r].query)
         /\ \A i, j \in 1..Len(rows) : i # j => KeyOf(rows[i]) # KeyOf(rows[j])
         /\ \A i \in 1..Len(rows) :
              rows[i].total_Viajes
                = Cardinality({d \in Docs(trips) : Key15(trips[d]) = KeyOf(rows[i])})
         /\ Descending(rows, LAMBDA row : row.total_Viajes)

\* hour=1&day=1 answered with one row although hour 1 occurs on two weekdays
HourDayWitness ==
  \E r \in Requests :
    /\ Answered(r, "/api/trips/1.5")
    /\ req[r].query.hour = Str(<<"1">>)
    /\ req[r].query.day = Str(<<"1">>)
    /\ Len(RowsOf(r)) = 1
    /\ Cardinality({k \in Pairs : k.hora = Num(1)}) >= 2
    /\ Cardinality({k \in Pairs : k.dia_Semana = Num(1)}) >= 2

\* the documents that a $match placed before the $group would keep
PreFilter(docs, q) ==
  SelectSeq(docs, LAMBDA d :
    /\ HasInt(q.hour) => HourOf(d.start) = ParseInt(q.hour.s)
    /\ HasInt(q.day) => DayOfWeekOf(d.start) = ParseInt(q.day.s))

\* C10: for endpoints 1.2 and 1.5 with numeric filters, filtering the
\* aggregated rows gives the same possible responses as aggregating only the
\* trips of that hour / weekday, and the response sent is one of them
FilterCommutesWithGrouping ==
  \A r \in Requests :
    LET q == req[r].query
    IN /\ req[r].path = "/api/trips/1.2" /\ HasInt(q.hour) =>
            /\ Result("1.2", trips, q) = Pipeline12(PreFilter(trips, q))
            /\ Answered(r, "/api/trips/1.2") => RowsOf(r) \in Pipeline12(PreFilter(trips, q))
       /\ req[r].path = "/api/trips/1.5" /\ (HasInt(q.hour) \/ HasInt(q.day)) =>
            /\ Result("1.5", trips, q) = Pipeline15(PreFilter(trips, q))
            /\ Answered(r, "/api/trips/1.5") => RowsOf(r) \in Pipeline15(PreFilter(trips, q))

\* hour=1 answered with the row that counts two trips, other hours present
FilterCommutesWitness ==
  \E r \in Requests :
    /\ Answered(r, "/api/trips/1.2")
    /\ req[r].query.hour = Str(<<"1">>)
    /\ Len(RowsOf(r)) = 1
    /\ RowsOf(r)[1].total_Viajes >= 2
    /\ Cardinality(Hours) >= 2

\* ------------------------------------------------------------------------
\* Properties of the trips router factory
\* ------------------------------------------------------------------------
\* router.get('/1.1') ... router.get('/1.5'): the routes one factory call registers
RoutesPerCall == 5

\* the number of routes on the module-level router
RouteCount == RoutesPerCall * Len(router)

\* the request is being answered, or was answered, by a route of the router
ServedByRouter(r) == variant = "A" /\ req[r].coll # Undefined

\* C11: once the factory has been called the router holds exactly five
\* routes, however many requests were served
RouterHoldsFiveRoutes == router # <<>> => RouteCount = 5

\* C11: the route that answers a request queries the collection of the db
\* handle that was passed to the factory for that same request
RouteUsesOwnHandle ==
  \A r \in Requests : ServedByRouter(r) => req[r].coll = req[r].db

\* C11: the router factory is stateless across calls
RouterFactoryStateless == RouterHoldsFiveRoutes /\ RouteUsesOwnHandle

====
